---- MODULE Spec2Model ----
(***************************************************************************)
(* Deployment admission and preemption scheduler of the cluster management *)
(* API (app/api/v1/endpoints/deployments.py).                              *)
(*                                                                         *)
(* State: the cluster rows (limits and usage), the deployment rows, the    *)
(* start tasks handed to BackgroundTasks and not yet run, and a record of  *)
(* the admission attempt of the request handled last (traced: whether the *)
(* record also keeps the error responses).  CPU and memory                *)
(* amounts are kept as whole units.  The handlers are coroutines without   *)
(* an await between their reads and writes, so each is one step.           *)
(***************************************************************************)
EXTENDS Integers, Sequences, FiniteSets

VARIABLES clusters, deployments, next_id, tasks, last, traced,
          now, served, inflight, requests, accepted

vars == <<clusters, deployments, next_id, tasks, last, traced, now, served, inflight,
          requests, accepted>>

\* what a handler of the deployments and clusters tables, taken as one step,
\* leaves alone: the clock, the count of the listings served since it last
\* advanced, and the handlers that have read but not yet written
others == <<now, served, inflight, requests, accepted>>

\* the rate limiter's table and the record of what it accepted
limiter == <<requests, accepted>>

----------------------------------------------------------------------------
(* Bounds of the model *)

\* number of deployment rows ever inserted (ids 1..MaxDeployments)
MaxDeployments == 3

----------------------------------------------------------------------------
(* DeploymentPriority and DeploymentStatus *)

LOW == 0
MEDIUM == 1
HIGH == 2
CRITICAL == 3

Priorities == {LOW, MEDIUM, HIGH, CRITICAL}

PENDING == "pending"
SCHEDULED == "scheduled"
RUNNING == "running"
PREEMPTED == "preempted"
FAILED == "failed"
COMPLETED == "completed"

DeploymentStatus == {PENDING, SCHEDULED, RUNNING, PREEMPTED, FAILED, COMPLETED}

\* status of a row inserted without an explicit status
DefaultStatus == PENDING

----------------------------------------------------------------------------
(* Inputs *)

Organizations == {1, 2}

ClusterIds == {1, 2}

DeploymentIds == 1..MaxDeployments

Triple(c, m, g) == [cpu |-> c, memory |-> m, gpu |-> g]

\* a DeploymentCreate body without its dependency_ids
Body(cid, c, m, g, prio) ==
    [cluster_id |-> cid, req |-> Triple(c, m, g), priority |-> prio]

\* the bodies sent (cpu_required > 0, memory_required > 0, gpu_required >= 0):
\* cluster 1 is the (10, 32, 2) cluster of the tests, cluster 2 a (4, 8, 1) one
Bodies ==
    {Body(1, 4, 8, 1, MEDIUM), Body(1, 4, 8, 1, HIGH), Body(1, 4, 8, 1, CRITICAL),
     Body(1, 8, 16, 2, LOW), Body(1, 8, 16, 2, CRITICAL),
     Body(1, 8, 16, 0, LOW),
     Body(2, 4, 8, 1, HIGH)}

\* dependency_ids of a request: None/empty, one id, or the pair {1, 2}; an id
\* may name a row that does not exist or a row of another cluster
DependencyIdSets == {{}} \cup {{i} : i \in DeploymentIds} \cup {{1, 2}}

\* the organization owning each cluster
Owner(cid) == IF cid = 1 THEN 1 ELSE 2

Request(org, body, dep_ids, rate_ok) ==
    [org |-> org, body |-> body, dependency_ids |-> dep_ids, rate_ok |-> rate_ok]

\* the POST requests: every body with every dependency_ids sent by a user of
\* the cluster's organization, one request of a user of another organization,
\* and one request the rate limiter turns away
CreateRequests ==
    {Request(Owner(b.cluster_id), b, ds, TRUE) : b \in Bodies, ds \in DependencyIdSets}
    \cup {Request(2, Body(1, 4, 8, 1, MEDIUM), {}, TRUE),
          Request(1, Body(1, 4, 8, 1, MEDIUM), {}, FALSE)}

\* bodies that include the (20, 64, 3) request of test_cluster_resource_limits,
\* above the (10, 32, 2) cluster in every dimension
LimitBodies ==
    {Body(1, 20, 64, 3, MEDIUM), Body(1, 20, 64, 3, CRITICAL),
     Body(1, 8, 16, 0, LOW), Body(1, 8, 16, 2, CRITICAL)}

LimitRequests ==
    {Request(1, b, ds, TRUE) : b \in LimitBodies, ds \in {{}, {1}}}
    \cup {Request(2, Body(1, 8, 16, 0, LOW), {}, TRUE),
          Request(1, Body(1, 8, 16, 0, LOW), {}, FALSE)}

\* one body for each cluster, sent with every dependency_ids
AnyBodies == {Body(1, 4, 8, 1, MEDIUM), Body(2, 4, 8, 1, HIGH)}

AnyRequests ==
    {Request(Owner(b.cluster_id), b, ds, TRUE) : b \in AnyBodies, ds \in DependencyIdSets}
    \cup {Request(2, Body(1, 4, 8, 1, MEDIUM), {}, TRUE),
          Request(1, Body(1, 4, 8, 1, MEDIUM), {}, FALSE)}

\* the bodies sent while the usage is also set through the clusters API
LedgerBodies == {Body(1, 4, 8, 1, MEDIUM), Body(1, 8, 16, 2, CRITICAL)}

LedgerRequests ==
    {Request(1, b, ds, TRUE) : b \in LedgerBodies, ds \in {{}, {1}}}

\* (cpu_used, ram_used, gpu_used) of a PUT: nothing used, the request of one
\* deployment, one value above each limit of the (10, 32, 2) cluster, and a
\* negative value
UsageInputs ==
    {Triple(0, 0, 0), Triple(4, 8, 1),
     Triple(11, 0, 0), Triple(0, 33, 0), Triple(0, 0, 3),
     Triple(-1, 0, 0)}

\* the bodies sent while deployments run to completion
CompleteBodies == {Body(1, 4, 8, 1, MEDIUM), Body(1, 8, 16, 2, HIGH)}

CompleteRequests ==
    {Request(1, b, ds, TRUE) : b \in CompleteBodies, ds \in DependencyIdSets}

NoVictims == {}

----------------------------------------------------------------------------
(* Resource triples *)

Zero == Triple(0, 0, 0)

Add(a, b) == Triple(a.cpu + b.cpu, a.memory + b.memory, a.gpu + b.gpu)

Sub(a, b) == Triple(a.cpu - b.cpu, a.memory - b.memory, a.gpu - b.gpu)

\* a >= b in all three dimensions
Covers(a, b) == a.cpu >= b.cpu /\ a.memory >= b.memory /\ a.gpu >= b.gpu

required(d) == Triple(d.cpu_required, d.memory_required, d.gpu_required)

used(c) == Triple(c.cpu_used, c.ram_used, c.gpu_used)

limit(c) == Triple(c.cpu_limit, c.ram_limit, c.gpu_limit)

\* available_cpu, available_memory, available_gpu of schedule_deployment
available(c) == Sub(limit(c), used(c))

----------------------------------------------------------------------------
(* Rows *)

\* a cluster row; a new cluster has no usage (test_cluster_resource_management
\* reads back exactly the first deployment's request)
Cluster(org, cpu, ram, gpu) ==
    [organization_id |-> org,
     cpu_limit |-> cpu, ram_limit |-> ram, gpu_limit |-> gpu,
     cpu_used |-> 0, ram_used |-> 0, gpu_used |-> 0]

\* the row create_deployment builds from the request body
DeploymentModel(cid, req, prio, dep_ids) ==
    [cluster_id |-> cid,
     cpu_required |-> req.cpu,
     memory_required |-> req.memory,
     gpu_required |-> req.gpu,
     priority |-> prio,
     status |-> DefaultStatus,
     dependency_ids |-> dep_ids]

\* deployment.dependencies: the rows the association table still links
dependencies(db, id) == db[id].dependency_ids \cap DOMAIN db

Insert(db, id, row) ==
    [i \in DOMAIN db \cup {id} |-> IF i = id THEN row ELSE db[i]]

Remove(db, id) == [i \in DOMAIN db \ {id} |-> db[i]]

SetStatus(db, ids, st) ==
    [i \in DOMAIN db |-> IF i \in ids THEN [db[i] EXCEPT !.status = st] ELSE db[i]]

----------------------------------------------------------------------------
(* check_cluster_access *)

\* the lookup without the organization filter
cluster_exists(cid, org) == cid \in DOMAIN clusters

check_cluster_access(cid, org) ==
    cid \in DOMAIN clusters /\ clusters[cid].organization_id = org

----------------------------------------------------------------------------
(* preempt_lower_priority_deployments *)

\* the query with "<=" for "<"
running_deployments_le(db, cid, priority) ==
    {i \in DOMAIN db : /\ db[i].cluster_id = cid
                       /\ db[i].status = RUNNING
                       /\ db[i].priority <= priority}

\* the query taking the SCHEDULED rows as well as the RUNNING ones
reserving_deployments(db, cid, priority) ==
    {i \in DOMAIN db : /\ db[i].cluster_id = cid
                       /\ db[i].status \in {SCHEDULED, RUNNING}
                       /\ db[i].priority < priority}

\* the query without the filter on the cluster
running_deployments_any_cluster(db, cid, priority) ==
    {i \in DOMAIN db : /\ db[i].status = RUNNING
                       /\ db[i].priority < priority}

\* the query: RUNNING rows of the cluster with a priority below the candidate's
running_deployments(db, cid, priority) ==
    {i \in DOMAIN db : /\ db[i].cluster_id = cid
                       /\ db[i].status = RUNNING
                       /\ db[i].priority < priority}

\* the listing in descending priority
OrderByPriorityDesc(db, S) ==
    {s \in [1..Cardinality(S) -> S] :
        \A i, j \in 1..Cardinality(S) :
            i < j => s[i] # s[j] /\ db[s[i]].priority >= db[s[j]].priority}

\* order_by(priority): every listing of the rows in ascending priority; the
\* order of rows of equal priority is the database's choice
OrderByPriority(db, S) ==
    {s \in [1..Cardinality(S) -> S] :
        \A i, j \in 1..Cardinality(S) :
            i < j => s[i] # s[j] /\ db[s[i]].priority <= db[s[j]].priority}

\* freed_cpu, freed_memory, freed_gpu after visiting the first k rows
RECURSIVE freed(_, _, _)
freed(db, order, k) ==
    IF k = 0 THEN Zero ELSE Add(freed(db, order, k - 1), required(db[order[k]]))

\* the loop without its break: every row of the listing is visited
visited_all(db, order, req) == Len(order)

\* the loop: rows are visited until the freed amounts cover the request
visited(db, order, req) ==
    IF \E k \in 1..Len(order) : Covers(freed(db, order, k), req)
    THEN CHOOSE k \in 1..Len(order) :
             /\ Covers(freed(db, order, k), req)
             /\ \A j \in 1..(k - 1) : ~Covers(freed(db, order, j), req)
    ELSE Len(order)

preempted_deployments(db, order, req) ==
    {order[i] : i \in 1..visited(db, order, req)}

\* the check with the GPU comparison left out
enough_freed_cpu_memory(db, order, req) ==
    LET f == freed(db, order, visited(db, order, req))
    IN  f.cpu >= req.cpu /\ f.memory >= req.memory

\* the check with "or" between the three comparisons
enough_freed_any_dimension(db, order, req) ==
    LET f == freed(db, order, visited(db, order, req))
    IN  f.cpu >= req.cpu \/ f.memory >= req.memory \/ f.gpu >= req.gpu

\* the check after the loop
enough_freed(db, order, req) ==
    Covers(freed(db, order, visited(db, order, req)), req)

\* the rows marked PREEMPTED; the function returns True iff enough_freed
preempt_lower_priority_deployments(db, order, req) ==
    IF enough_freed(db, order, req)
    THEN preempted_deployments(db, order, req)
    ELSE NoVictims

----------------------------------------------------------------------------
(* schedule_deployment *)

\* the dependency test passing once every dependency has started
all_started(db, ids) == \A i \in ids : db[i].status \in {RUNNING, COMPLETED}

\* the dependency test asking only that no dependency has FAILED
none_failed(db, ids) == \A i \in ids : db[i].status # FAILED

\* all(d.status == COMPLETED for d in deployment.dependencies)
all_completed(db, ids) == \A i \in ids : db[i].status = COMPLETED

\* the priority test with ">" for ">="
may_preempt_critical_only(priority) == priority > HIGH

\* the priority test against MEDIUM
may_preempt_from_medium(priority) == priority >= MEDIUM

\* "Try preemption for high priority deployments"
may_preempt(priority) == priority >= HIGH

\* the debit with the GPU line left out
debit_without_gpu(c, d) ==
    [c EXCEPT !.cpu_used = @ + d.cpu_required,
              !.ram_used = @ + d.memory_required]

\* cluster.cpu_used += ...; cluster.ram_used += ...; cluster.gpu_used += ...
debit(c, d) ==
    [c EXCEPT !.cpu_used = @ + d.cpu_required,
              !.ram_used = @ + d.memory_required,
              !.gpu_used = @ + d.gpu_required]

\* cluster.cpu_used -= ...; cluster.ram_used -= ...; cluster.gpu_used -= ...
credit(c, d) ==
    [c EXCEPT !.cpu_used = @ - d.cpu_required,
              !.ram_used = @ - d.memory_required,
              !.gpu_used = @ - d.gpu_required]

Result(cl, db, ts, outcome, victims) ==
    [clusters |-> cl, deployments |-> db, tasks |-> ts,
     outcome |-> outcome, victims |-> victims]

\* cl, db, ts: the tables and the task list before the call; id: the row to
\* schedule; order: the listing the victim query returns
schedule_deployment(cl, db, ts, id, order) ==
    LET d == db[id]
        cluster == cl[d.cluster_id]
        fits == Covers(available(cluster), required(d))
        preempting == ~fits /\ may_preempt(d.priority)
        victims == IF preempting
                   THEN preempt_lower_priority_deployments(db, order, required(d))
                   ELSE NoVictims
        preempted == preempting /\ enough_freed(db, order, required(d))
        can_schedule == fits \/ preempted
    IN  IF dependencies(db, id) # {} /\ ~all_completed(db, dependencies(db, id))
        THEN Result(cl, db, ts, "blocked", NoVictims)
        ELSE IF can_schedule
        THEN Result([cl EXCEPT ![d.cluster_id] = debit(cluster, d)],
                    SetStatus(SetStatus(db, victims, PREEMPTED), {id}, SCHEDULED),
                    ts \cup {id},
                    IF fits THEN "admitted" ELSE "preempted",
                    victims)
        ELSE Result(cl, SetStatus(db, {id}, PENDING), ts, "deferred", NoVictims)

----------------------------------------------------------------------------
(* Request handlers *)

\* the admission attempt made by the request handled last, if it made one
Attempt(id, outcome, victims) ==
    [id |-> id, outcome |-> outcome, victims |-> victims]

NoAttempt == Attempt(0, "none", NoVictims)

\* the details of the HTTPExceptions
RateLimitExceeded == "Rate limit exceeded"
ClusterNotFound == "Cluster not found or access denied"
DependencyNotFound == "One or more dependency deployments not found"
DeploymentNotFound == "Deployment not found"

\* an HTTPException with this detail raised before any write
Reject(detail) ==
    /\ last' = IF traced THEN Attempt(0, detail, NoVictims) ELSE NoAttempt
    /\ UNCHANGED <<clusters, deployments, next_id, tasks, traced, others>>

\* the ids taken as they were sent, without the query
sent_dependencies(db, dep_ids, cid) == dep_ids

\* db.query(DeploymentModel).filter(id.in_(dependency_ids), cluster_id == cluster.id)
found_dependencies(db, dep_ids, cid) ==
    {i \in dep_ids \cap DOMAIN db : db[i].cluster_id = cid}

\* the test on what the query found, with any() in place of the count
some_found(found, dep_ids) == found # {}

\* len(dependencies) == len(deployment_in.dependency_ids)
all_found(found, dep_ids) == Cardinality(found) = Cardinality(dep_ids)

\* POST /deployments/ by a user of organization org; rate_ok is the rate
\* limiter's verdict on the request
create_deployment(org, cid, req, prio, dep_ids, rate_ok) ==
    IF ~rate_ok
    THEN Reject(RateLimitExceeded)
    ELSE IF ~check_cluster_access(cid, org)
    THEN Reject(ClusterNotFound)
    ELSE IF /\ dep_ids # {}
            /\ ~all_found(found_dependencies(deployments, dep_ids, cid), dep_ids)
    THEN Reject(DependencyNotFound)
    ELSE /\ next_id <= MaxDeployments
         /\ LET id == next_id
                db == Insert(deployments, id,
                             DeploymentModel(cid, req, prio,
                                 found_dependencies(deployments, dep_ids, cid)))
            IN  IF dependencies(db, id) = {} \/ all_completed(db, dependencies(db, id))
                THEN \E order \in OrderByPriority(db,
                                      running_deployments(db, cid, prio)) :
                        LET r == schedule_deployment(clusters, db, tasks, id, order)
                        IN  /\ clusters' = r.clusters
                            /\ deployments' = r.deployments
                            /\ tasks' = r.tasks
                            /\ last' = Attempt(id, r.outcome, r.victims)
                ELSE /\ deployments' = db
                     /\ last' = Attempt(id, "blocked", NoVictims)
                     /\ UNCHANGED <<clusters, tasks>>
         /\ next_id' = next_id + 1
         /\ UNCHANGED <<traced, others>>

\* the callback that leaves a SCHEDULED row as it is and starts a PENDING one
start_deployment_pending(id) ==
    /\ id \in tasks
    /\ tasks' = tasks \ {id}
    /\ IF id \in DOMAIN deployments /\ deployments[id].status = PENDING
       THEN deployments' = SetStatus(deployments, {id}, RUNNING)
       ELSE UNCHANGED deployments
    /\ last' = NoAttempt
    /\ UNCHANGED <<clusters, next_id, traced, others>>

\* the callback that reserves the capacity of the row once more as it starts it
start_deployment_debiting(id) ==
    /\ id \in tasks
    /\ tasks' = tasks \ {id}
    /\ IF id \in DOMAIN deployments /\ deployments[id].status = SCHEDULED
       THEN /\ deployments' = SetStatus(deployments, {id}, RUNNING)
            /\ clusters' = [clusters EXCEPT ![deployments[id].cluster_id] =
                                               debit(@, deployments[id])]
       ELSE UNCHANGED <<clusters, deployments>>
    /\ last' = NoAttempt
    /\ UNCHANGED <<next_id, traced, others>>

\* the background task added by schedule_deployment
start_deployment(id) ==
    /\ id \in tasks
    /\ tasks' = tasks \ {id}
    /\ IF id \in DOMAIN deployments /\ deployments[id].status = SCHEDULED
       THEN deployments' = SetStatus(deployments, {id}, RUNNING)
       ELSE UNCHANGED deployments
    /\ last' = NoAttempt
    /\ UNCHANGED <<clusters, next_id, traced, others>>

\* the deletion that attempts the admission of a PENDING row of the cluster
\* again once the row is gone
delete_deployment_readmitting(org, id) ==
    IF ~(/\ id \in DOMAIN deployments
         /\ deployments[id].cluster_id \in DOMAIN clusters
         /\ clusters[deployments[id].cluster_id].organization_id = org)
    THEN Reject(DeploymentNotFound)
    ELSE LET d == deployments[id]
             cl == IF d.status = RUNNING
                   THEN [clusters EXCEPT ![d.cluster_id] = credit(@, d)]
                   ELSE clusters
             db == Remove(deployments, id)
             pending == {i \in DOMAIN db : /\ db[i].cluster_id = d.cluster_id
                                           /\ db[i].status = PENDING}
         IN  /\ IF pending = {}
                THEN clusters' = cl /\ deployments' = db /\ UNCHANGED tasks
                ELSE \E p \in pending :
                        \E order \in OrderByPriority(db,
                                running_deployments(db, d.cluster_id, db[p].priority)) :
                            LET r == schedule_deployment(cl, db, tasks, p, order)
                            IN  /\ clusters' = r.clusters
                                /\ deployments' = r.deployments
                                /\ tasks' = r.tasks
             /\ last' = NoAttempt
             /\ UNCHANGED <<next_id, traced, others>>

\* DELETE /deployments/{deployment_id} by a user of organization org
delete_deployment(org, id) ==
    IF ~(/\ id \in DOMAIN deployments
         /\ deployments[id].cluster_id \in DOMAIN clusters
         /\ clusters[deployments[id].cluster_id].organization_id = org)
    THEN Reject(DeploymentNotFound)
    ELSE LET d == deployments[id]
         IN  /\ clusters' = IF d.status = RUNNING
                            THEN [clusters EXCEPT ![d.cluster_id] = credit(@, d)]
                            ELSE clusters
             /\ deployments' = Remove(deployments, id)
             /\ last' = NoAttempt
             /\ UNCHANGED <<next_id, tasks, traced, others>>

\* the details of the HTTPExceptions of update_cluster_resources
NoSuchCluster == "Cluster not found"
CpuExceedsLimit == "CPU usage exceeds limit"
MemoryExceedsLimit == "Memory usage exceeds limit"
GpuExceedsLimit == "GPU usage exceeds limit"

\* PUT /clusters/{cluster_id}/resources by a user of organization org; the
\* three query parameters are unconstrained numbers
update_cluster_resources(org, cid, u) ==
    IF ~(cid \in DOMAIN clusters /\ clusters[cid].organization_id = org)
    THEN Reject(NoSuchCluster)
    ELSE IF u.cpu > clusters[cid].cpu_limit
    THEN Reject(CpuExceedsLimit)
    ELSE IF u.memory > clusters[cid].ram_limit
    THEN Reject(MemoryExceedsLimit)
    ELSE IF u.gpu > clusters[cid].gpu_limit
    THEN Reject(GpuExceedsLimit)
    ELSE /\ clusters' = [clusters EXCEPT ![cid].cpu_used = u.cpu,
                                         ![cid].ram_used = u.memory,
                                         ![cid].gpu_used = u.gpu]
         /\ last' = NoAttempt
         /\ UNCHANGED <<deployments, next_id, tasks, traced, others>>

----------------------------------------------------------------------------
(* complete: the completion of a RUNNING deployment, which no handler of *)
(* deployments.py performs; after the scheduler's contract                *)

NotRunning == "Deployment is not running"

\* the guard that also lets a COMPLETED deployment through
completable_or_completed(d) == d.status \in {RUNNING, COMPLETED}

\* "valid only from RUNNING"
completable(d) == d.status = RUNNING

\* the fan-out restricted to the dependents with a single dependency
newly_ready_sole(db, id) ==
    {b \in DOMAIN db : /\ db[b].dependency_ids = {id}
                       /\ db[b].status = PENDING
                       /\ all_completed(db, dependencies(db, b))}

\* on_completed: the PENDING dependents of id whose dependencies are now all
\* COMPLETED
newly_ready(db, id) ==
    {b \in DOMAIN db : /\ id \in dependencies(db, b)
                       /\ db[b].status = PENDING
                       /\ all_completed(db, dependencies(db, b))}

\* the tables after schedule_deployment has been called for every row of
\* ready, in any order
RECURSIVE reevaluate(_, _, _, _)
reevaluate(cl, db, ts, ready) ==
    IF ready = {}
    THEN {[clusters |-> cl, deployments |-> db, tasks |-> ts]}
    ELSE UNION {UNION {LET r == schedule_deployment(cl, db, ts, b, order)
                       IN  reevaluate(r.clusters, r.deployments, r.tasks, ready \ {b}) :
                           order \in OrderByPriority(db,
                               running_deployments(db, db[b].cluster_id, db[b].priority))} :
                b \in ready}

complete(id) ==
    IF ~(id \in DOMAIN deployments /\ completable(deployments[id]))
    THEN /\ last' = IF traced THEN Attempt(id, NotRunning, NoVictims) ELSE NoAttempt
         /\ UNCHANGED <<clusters, deployments, next_id, tasks, traced, others>>
    ELSE LET d == deployments[id]
             cl == [clusters EXCEPT ![d.cluster_id] = credit(@, d)]
             db == SetStatus(deployments, {id}, COMPLETED)
         IN  /\ \E r \in reevaluate(cl, db, tasks, newly_ready(db, id)) :
                    /\ clusters' = r.clusters
                    /\ deployments' = r.deployments
                    /\ tasks' = r.tasks
             /\ last' = Attempt(id, "completed", NoVictims)
             /\ UNCHANGED <<next_id, traced, others>>

----------------------------------------------------------------------------
(* Specification *)

\* the addresses requests come from (request.client.host)
Clients == {"a", "b"}

\* the clock at zero, no listing served, no handler in progress, no request
\* seen by the rate limiter
Idle ==
    /\ now = 0 /\ served = 0 /\ inflight = {}
    /\ requests = [client \in Clients |-> <<>>]
    /\ accepted = [client \in Clients |-> <<>>]

Init ==
    /\ clusters = [c \in ClusterIds |->
                      IF c = 1 THEN Cluster(1, 10, 32, 2) ELSE Cluster(2, 4, 8, 1)]
    /\ deployments = [i \in {} |-> 0]
    /\ next_id = 1
    /\ tasks = {}
    /\ last = NoAttempt
    /\ traced = FALSE
    /\ Idle

\* a client sends one of the requests
CreateOf(sent) ==
    \E r \in sent :
        create_deployment(r.org, r.body.cluster_id, r.body.req, r.body.priority,
                          r.dependency_ids, r.rate_ok)

Create == CreateOf(CreateRequests)

Start == \E id \in DeploymentIds : start_deployment(id)

Delete == \E org \in Organizations, id \in DeploymentIds : delete_deployment(org, id)

Next == Create \/ Start \/ Delete

Spec == Init /\ [][Next]_vars

\* the same handlers with the error responses kept on record
InitResponses ==
    /\ clusters = [c \in ClusterIds |->
                      IF c = 1 THEN Cluster(1, 10, 32, 2) ELSE Cluster(2, 4, 8, 1)]
    /\ deployments = [i \in {} |-> 0]
    /\ next_id = 1
    /\ tasks = {}
    /\ last = NoAttempt
    /\ traced = TRUE
    /\ Idle

CreateAny == CreateOf(AnyRequests)

NextResponses == CreateAny \/ Start \/ Delete

SpecResponses == InitResponses /\ [][NextResponses]_vars

\* the handlers serving clients that also ask for more than a cluster has
InitLimits ==
    /\ clusters = [c \in ClusterIds |->
                      IF c = 1 THEN Cluster(1, 10, 32, 2) ELSE Cluster(2, 4, 8, 1)]
    /\ deployments = [i \in {} |-> 0]
    /\ next_id = 1
    /\ tasks = {}
    /\ last = NoAttempt
    /\ traced = TRUE
    /\ Idle

CreateLimits == CreateOf(LimitRequests)

NextLimits == CreateLimits \/ Start \/ Delete

SpecLimits == InitLimits /\ [][NextLimits]_vars

\* the deployment handlers together with PUT /clusters/{cluster_id}/resources
InitLedger ==
    /\ clusters = [c \in ClusterIds |->
                      IF c = 1 THEN Cluster(1, 10, 32, 2) ELSE Cluster(2, 4, 8, 1)]
    /\ deployments = [i \in {} |-> 0]
    /\ next_id = 1
    /\ tasks = {}
    /\ last = NoAttempt
    /\ traced = TRUE
    /\ Idle

CreateLedger == CreateOf(LedgerRequests)

UpdateResources ==
    \E org \in Organizations, u \in UsageInputs : update_cluster_resources(org, 1, u)

NextLedger == CreateLedger \/ Start \/ Delete \/ UpdateResources

SpecLedger == InitLedger /\ [][NextLedger]_vars

\* the deployment handlers together with the completion of deployments
InitComplete ==
    /\ clusters = [c \in ClusterIds |->
                      IF c = 1 THEN Cluster(1, 10, 32, 2) ELSE Cluster(2, 4, 8, 1)]
    /\ deployments = [i \in {} |-> 0]
    /\ next_id = 1
    /\ tasks = {}
    /\ last = NoAttempt
    /\ traced = TRUE
    /\ Idle

CreateComplete == CreateOf(CompleteRequests)

Complete == \E id \in DeploymentIds : complete(id)

NextComplete == CreateComplete \/ Start \/ Delete \/ Complete

SpecComplete == InitComplete /\ [][NextComplete]_vars

----------------------------------------------------------------------------
(* Vocabulary of the properties: a step is read off the two states it joins *)

\* total of the required triples of the rows S of db
RECURSIVE SumRequired(_, _)
SumRequired(db, S) ==
    IF S = {} THEN Zero
    ELSE LET i == CHOOSE x \in S : TRUE
         IN  Add(required(db[i]), SumRequired(db, S \ {i}))

\* the rows holding a reservation on cluster c
Reserving(c) ==
    {i \in DOMAIN deployments : /\ deployments[i].cluster_id = c
                                /\ deployments[i].status \in {SCHEDULED, RUNNING}}

\* the step inserts the row next_id (an accepted POST)
Creates == next_id' = next_id + 1

\* the rows the step marks PREEMPTED
Evicted ==
    {i \in DOMAIN deployments \cap DOMAIN deployments' :
        deployments[i].status # PREEMPTED /\ deployments'[i].status = PREEMPTED}

\* row b of db has a dependency that is not COMPLETED (or is gone)
Unmet(db, b) ==
    \E a \in db[b].dependency_ids : a \notin DOMAIN db \/ db[a].status # COMPLETED

\* the RUNNING rows of cluster c with a priority strictly below p, before the step
LowerRunning(c, p) ==
    {i \in DOMAIN deployments : /\ deployments[i].cluster_id = c
                                /\ deployments[i].status = RUNNING
                                /\ deployments[i].priority < p}

\* the step is the handling of POST request r
Posts(r) ==
    create_deployment(r.org, r.body.cluster_id, r.body.req, r.body.priority,
                      r.dependency_ids, r.rate_ok)

\* request r passes the rate limiter and names a cluster of the caller
Authorized(r) == r.rate_ok /\ r.org = Owner(r.body.cluster_id)

\* priority p cannot get req on cluster c, with or without preemption: req does
\* not fit the free capacity, and p is below HIGH or the RUNNING rows of lower
\* priority together hold less than req in some dimension
Unsatisfiable(c, req, p) ==
    /\ ~Covers(available(clusters[c]), req)
    /\ \/ p < HIGH
       \/ ~Covers(SumRequired(deployments, LowerRunning(c, p)), req)

\* every row that existed before the step is still there, unchanged
RowsUntouched ==
    \A i \in DOMAIN deployments :
        i \in DOMAIN deployments' /\ deployments'[i] = deployments[i]

----------------------------------------------------------------------------
(* Properties *)

\* C1: in every reachable state, for every cluster, the used CPU, RAM and GPU
\* equal the sums of the required amounts of the cluster's SCHEDULED or
\* RUNNING deployments.
C1_UsedEqualsReservations ==
    \A c \in ClusterIds :
        used(clusters[c]) = SumRequired(deployments, Reserving(c))

\* C2: in every reachable state every cluster has used <= limit in each of
\* CPU, RAM and GPU.
C2_UsedWithinLimit ==
    \A c \in ClusterIds : Covers(limit(clusters[c]), used(clusters[c]))

\* C3: a deployment created with a dependency that is not COMPLETED is never
\* SCHEDULED or RUNNING: after every step it is PENDING, and the step that
\* creates it leaves the usage of every cluster unchanged.
C3_DependencyGating ==
    [][\A b \in DOMAIN deployments' :
          Unmet(deployments', b) =>
              /\ deployments'[b].status = PENDING
              /\ b \notin DOMAIN deployments => clusters' = clusters]_vars

\* a dependent deployment was left PENDING although its request fits the free
\* capacity of its cluster
C3_Witness ==
    /\ last.outcome = "blocked"
    /\ last.id \in DOMAIN deployments
    /\ Unmet(deployments, last.id)
    /\ deployments[last.id].status = PENDING
    /\ Covers(available(clusters[deployments[last.id].cluster_id]),
              required(deployments[last.id]))

\* C4: every deployment a step marks PREEMPTED was RUNNING on the cluster of
\* the deployment created by that step and had a strictly lower priority.
C4_VictimsLowerPriority ==
    [][\A v \in Evicted :
          /\ Creates
          /\ deployments[v].status = RUNNING
          /\ deployments[v].cluster_id = deployments'[next_id].cluster_id
          /\ deployments[v].priority < deployments'[next_id].priority]_vars

\* a preemption was committed while a RUNNING deployment of the candidate's
\* cluster with a priority >= the candidate's kept running
C4_Witness ==
    /\ last.outcome = "preempted"
    /\ last.victims # {}
    /\ \E i \in DOMAIN deployments :
          /\ i # last.id
          /\ deployments[i].cluster_id = deployments[last.id].cluster_id
          /\ deployments[i].priority >= deployments[last.id].priority
          /\ deployments[i].status = RUNNING

\* C5: whenever a deployment is admitted with evictions, its request is at
\* most the cluster's free capacity (limit - used) just before plus the sum of
\* the evicted deployments' requests, in every dimension.
C5_AdmittedWithinFreedPlusAvailable ==
    [][(Creates /\ Evicted # {}) =>
          LET d == deployments'[next_id]
          IN  Covers(Add(available(clusters[d.cluster_id]),
                         SumRequired(deployments, Evicted)),
                     required(d))]_vars

\* C6: when an unblocked HIGH or CRITICAL deployment does not fit and the
\* RUNNING strictly-lower-priority deployments of its cluster together do not
\* cover its request in all three dimensions, nothing is committed: no row
\* changes, the usage is unchanged, no start is dispatched, and the candidate
\* is PENDING.
C6_NoPartialPreemption ==
    [][Creates =>
          LET d == deployments'[next_id]
              c == d.cluster_id
          IN  (/\ ~Unmet(deployments', next_id)
               /\ d.priority >= HIGH
               /\ ~Covers(available(clusters[c]), required(d))
               /\ ~Covers(SumRequired(deployments, LowerRunning(c, d.priority)),
                          required(d)))
              => /\ Evicted = {}
                 /\ RowsUntouched
                 /\ clusters' = clusters
                 /\ tasks' = tasks
                 /\ d.status = PENDING]_vars

\* a HIGH or CRITICAL candidate was deferred although the RUNNING
\* lower-priority deployments cover its request in some dimension
C6_Witness ==
    /\ last.outcome = "deferred"
    /\ last.id \in DOMAIN deployments
    /\ LET d == deployments[last.id]
           f == SumRequired(deployments, LowerRunning(d.cluster_id, d.priority))
       IN  /\ d.priority >= HIGH
           /\ d.status = PENDING
           /\ f.cpu >= d.cpu_required
           /\ f.gpu < d.gpu_required

\* C7 as claimed: when an unblocked HIGH or CRITICAL deployment is created
\* that does not fit, every RUNNING strictly-lower-priority deployment of the
\* cluster whose request covers the candidate's ends PREEMPTED and the
\* candidate ends SCHEDULED.
C7_CoveringDeploymentPreempted ==
    [][Creates =>
          LET d == deployments'[next_id]
              c == d.cluster_id
          IN  (/\ ~Unmet(deployments', next_id)
               /\ d.priority >= HIGH
               /\ ~Covers(available(clusters[c]), required(d)))
              => \A v \in LowerRunning(c, d.priority) :
                    Covers(required(deployments[v]), required(d))
                    => /\ deployments'[v].status = PREEMPTED
                       /\ d.status = SCHEDULED]_vars

\* C7 as amended: in that case the candidate ends SCHEDULED and some RUNNING
\* strictly-lower-priority deployment ends PREEMPTED; the covering deployment
\* itself ends PREEMPTED when every other RUNNING lower-priority deployment of
\* the cluster has a priority above its own.
C7_PreemptionAdmitsCandidate ==
    [][Creates =>
          LET d == deployments'[next_id]
              c == d.cluster_id
          IN  (/\ ~Unmet(deployments', next_id)
               /\ d.priority >= HIGH
               /\ ~Covers(available(clusters[c]), required(d)))
              => \A v \in LowerRunning(c, d.priority) :
                    Covers(required(deployments[v]), required(d))
                    => /\ d.status = SCHEDULED
                       /\ Evicted # {}
                       /\ (\A e \in LowerRunning(c, d.priority) \ {v} :
                              deployments[e].priority > deployments[v].priority)
                          => deployments'[v].status = PREEMPTED]_vars

\* a candidate was admitted by evicting the lowest RUNNING deployment, whose
\* request covers the candidate's, while a second RUNNING lower-priority
\* deployment that covers it as well kept running
C7_Witness ==
    /\ last.outcome = "preempted"
    /\ deployments[last.id].status = SCHEDULED
    /\ \E v \in last.victims :
          /\ deployments[v].status = PREEMPTED
          /\ Covers(required(deployments[v]), required(deployments[last.id]))
          /\ \E w \in DOMAIN deployments :
                /\ deployments[w].cluster_id = deployments[last.id].cluster_id
                /\ deployments[w].status = RUNNING
                /\ deployments[w].priority < deployments[last.id].priority
                /\ deployments[w].priority > deployments[v].priority
                /\ Covers(required(deployments[w]), required(deployments[last.id]))

\* C8: after an admission with evictions the cluster's usage equals the usage
\* before, minus the sum of the evicted deployments' requests, plus the
\* candidate's request, in each dimension.
C8_VictimsCreditedBack ==
    [][(Creates /\ Evicted # {}) =>
          LET d == deployments'[next_id]
              c == d.cluster_id
          IN  used(clusters'[c]) =
                  Add(Sub(used(clusters[c]), SumRequired(deployments, Evicted)),
                      required(d))]_vars

\* C9: a deployment created without unmet dependencies whose request fits the
\* cluster's free capacity in all three dimensions ends SCHEDULED, the
\* cluster's used CPU, RAM and GPU each grow by exactly its request, and no
\* other row changes.
C9_FittingDeploymentScheduled ==
    [][Creates =>
          LET d == deployments'[next_id]
              c == d.cluster_id
          IN  (/\ ~Unmet(deployments', next_id)
               /\ Covers(available(clusters[c]), required(d)))
              => /\ d.status = SCHEDULED
                 /\ clusters'[c].cpu_used = clusters[c].cpu_used + d.cpu_required
                 /\ clusters'[c].ram_used = clusters[c].ram_used + d.memory_required
                 /\ clusters'[c].gpu_used = clusters[c].gpu_used + d.gpu_required
                 /\ RowsUntouched]_vars

\* a deployment asking for a GPU was admitted into free capacity
C9_Witness ==
    /\ last.outcome = "admitted"
    /\ deployments[last.id].status = SCHEDULED
    /\ deployments[last.id].gpu_required > 0
    /\ clusters[deployments[last.id].cluster_id].gpu_used > 0

C12_OversizeRejected ==
    [][\A r \in LimitRequests :
          (/\ Authorized(r)
           /\ r.body.req.cpu > clusters[r.body.cluster_id].cpu_limit
           /\ r.body.req.memory > clusters[r.body.cluster_id].ram_limit
           /\ r.body.req.gpu > clusters[r.body.cluster_id].gpu_limit
           /\ Posts(r))
          => /\ ~Creates
             /\ deployments' = deployments
             /\ last'.id = 0
             /\ last'.outcome # "none"]_vars

\* C13: the step that deletes a row lowers the usage of the row's cluster by
\* exactly the row's request when the row was SCHEDULED or RUNNING, and
\* leaves it unchanged when the row had any other status.
C13_DeleteCreditsReservation ==
    [][\A i \in DOMAIN deployments \ DOMAIN deployments' :
          LET d == deployments[i]
              c == d.cluster_id
          IN  used(clusters'[c]) =
                  IF d.status \in {SCHEDULED, RUNNING}
                  THEN Sub(used(clusters[c]), required(d))
                  ELSE used(clusters[c])]_vars

\* C14: in every reachable state the used CPU, RAM and GPU of every cluster
\* are at least zero.
C14_UsedNeverNegative ==
    \A c \in ClusterIds : Covers(used(clusters[c]), Zero)

\* C14, through delete alone: no delete of a row lowers a usage that was at
\* least zero below zero (a release above what is recorded is not applied).
C14_ReleaseWithinRecorded ==
    [][\A i \in DOMAIN deployments \ DOMAIN deployments' :
          LET c == deployments[i].cluster_id
          IN  Covers(used(clusters[c]), Zero) => Covers(used(clusters'[c]), Zero)]_vars

\* the status changes of the life cycle
LifeCycle ==
    {<<PENDING, SCHEDULED>>, <<SCHEDULED, RUNNING>>, <<RUNNING, COMPLETED>>,
     <<RUNNING, PREEMPTED>>, <<RUNNING, FAILED>>}

\* C15: in every step, a row that changes its status makes one of the changes
\* PENDING->SCHEDULED, SCHEDULED->RUNNING, RUNNING->COMPLETED,
\* RUNNING->PREEMPTED, RUNNING->FAILED (so a PREEMPTED, FAILED or COMPLETED row
\* never changes again), and a new row is PENDING unless the request that
\* created it also admitted it, which leaves it SCHEDULED.
C15_StatusLifeCycle ==
    [][/\ \A i \in DOMAIN deployments \cap DOMAIN deployments' :
             \/ deployments'[i].status = deployments[i].status
             \/ <<deployments[i].status, deployments'[i].status>> \in LifeCycle
       /\ \A i \in DOMAIN deployments' \ DOMAIN deployments :
             deployments'[i].status =
                 IF last'.outcome \in {"admitted", "preempted"}
                 THEN SCHEDULED ELSE PENDING]_vars

\* a row went PENDING, SCHEDULED, RUNNING, PREEMPTED and is still PREEMPTED
\* after further requests, while a later row is RUNNING
C15_Witness ==
    \E i, j \in DOMAIN deployments :
        /\ i < j
        /\ deployments[i].status = PREEMPTED
        /\ deployments[j].status = RUNNING
        /\ deployments[j].cluster_id = deployments[i].cluster_id
        /\ last.outcome = "deferred"

\* the rows the step takes from RUNNING to COMPLETED
Completed ==
    {a \in DOMAIN deployments \cap DOMAIN deployments' :
        deployments[a].status = RUNNING /\ deployments'[a].status = COMPLETED}

\* the rows the step takes from PENDING to SCHEDULED
Admitted ==
    {b \in DOMAIN deployments \cap DOMAIN deployments' :
        deployments[b].status = PENDING /\ deployments'[b].status = SCHEDULED}

C17_CompleteCreditsOnce ==
    [][/\ \A id \in DOMAIN deployments :
             (deployments[id].status = COMPLETED /\ complete(id))
             => /\ clusters' = clusters
                /\ deployments' = deployments
                /\ tasks' = tasks
       /\ \A a \in Completed :
             LET c == deployments[a].cluster_id
             IN  used(clusters'[c]) =
                     Add(Sub(used(clusters[c]), required(deployments[a])),
                         SumRequired(deployments, Admitted))]_vars

\* complete was called on a deployment that a first complete had already
\* taken to COMPLETED
C17_Witness ==
    /\ last.outcome = NotRunning
    /\ last.id \in DOMAIN deployments
    /\ deployments[last.id].status = COMPLETED

\* the rows reached from the rows S along at most n dependency edges of db
RECURSIVE Reached(_, _, _)
Reached(db, S, n) ==
    IF n = 0 THEN S
    ELSE Reached(db, S \cup UNION {dependencies(db, i) : i \in S}, n - 1)

\* the rows that row i of db depends on, directly or transitively
Prerequisites(db, i) == Reached(db, dependencies(db, i), Cardinality(DOMAIN db))

\* C18: in every reachable state no stored deployment depends on itself,
\* directly or transitively, and a POST whose dependency_ids name the id the
\* new row would get (the one request that would close a cycle) stores no row
\* and leaves every row unchanged.
C18_DependenciesAcyclic ==
    /\ [](\A i \in DOMAIN deployments : i \notin Prerequisites(deployments, i))
    /\ [][\A r \in AnyRequests :
             (next_id \in r.dependency_ids /\ Posts(r))
             => ~Creates /\ deployments' = deployments]_vars

\* a POST was turned away for its dependency_ids while the first two rows are
\* stored, the second depending on the first, and no third row was stored
C18_Witness ==
    /\ last.outcome = DependencyNotFound
    /\ next_id = 3
    /\ DOMAIN deployments = {1, 2}
    /\ Prerequisites(deployments, 2) = {1}
    /\ Prerequisites(deployments, 1) = {}

\* some dependency id of request r names no stored row of the target cluster
Unresolved(r) ==
    \E i \in r.dependency_ids :
        \/ i \notin DOMAIN deployments
        \/ deployments[i].cluster_id # r.body.cluster_id

\* C19: a POST with a dependency id that names no stored deployment of the
\* target cluster (a missing id or a deployment of another cluster) is turned
\* away with nothing written: no row stored, no row changed, the usage of
\* every cluster and the start tasks unchanged; and in every reachable state
\* every stored dependency edge joins two deployments of the same cluster.
C19_UnresolvedDependencyRejected ==
    /\ [][\A r \in AnyRequests :
             (Authorized(r) /\ Unresolved(r) /\ Posts(r))
             => /\ ~Creates
                /\ deployments' = deployments
                /\ clusters' = clusters
                /\ tasks' = tasks
                /\ last' = Attempt(0, DependencyNotFound, NoVictims)]_vars
    /\ [](\A b \in DOMAIN deployments :
             \A a \in dependencies(deployments, b) :
                 deployments[a].cluster_id = deployments[b].cluster_id)

\* a POST was turned away for its dependency_ids while both clusters hold
\* deployments and a dependency edge is stored
C19_Witness ==
    /\ last.outcome = DependencyNotFound
    /\ \E i, j \in DOMAIN deployments :
          deployments[i].cluster_id # deployments[j].cluster_id
    /\ \E b \in DOMAIN deployments : dependencies(deployments, b) # {}

\* C20: a POST whose dependency ids all name stored deployments, one of them
\* of another cluster, is answered with an error other than the one that
\* answers an id naming no deployment at all.
C20_CrossClusterDistinct ==
    [][\A r \in AnyRequests :
          (/\ Authorized(r)
           /\ r.dependency_ids # {}
           /\ r.dependency_ids \subseteq DOMAIN deployments
           /\ Unresolved(r)
           /\ Posts(r))
          => /\ last'.id = 0
             /\ last'.outcome \notin {"none", DependencyNotFound}]_vars

\* C25: in every reachable state a deployment that was created with a
\* dependency which has since been deleted is PENDING (no handler completes a
\* deployment, so the dependency was deleted before it was COMPLETED).
C25_DeletedDependencyBlocks ==
    \A b \in DOMAIN deployments :
        (\E a \in deployments[b].dependency_ids : a \notin DOMAIN deployments)
        => deployments[b].status = PENDING

\* the dependency of a PENDING deployment has been deleted, nothing is reserved
\* on the cluster any more, and the deployment's request would fit
C25_Witness ==
    \E b \in DOMAIN deployments :
        /\ \E a \in deployments[b].dependency_ids : a \notin DOMAIN deployments
        /\ deployments[b].status = PENDING
        /\ Reserving(deployments[b].cluster_id) = {}
        /\ Covers(available(clusters[deployments[b].cluster_id]),
                  required(deployments[b]))

\* the step writes nothing: every cluster, every row and the start tasks stay
\* as they were and no row is stored
NothingWritten ==
    /\ clusters' = clusters
    /\ deployments' = deployments
    /\ tasks' = tasks
    /\ next_id' = next_id

\* C26: a POST naming a cluster of another organization is answered "Cluster
\* not found or access denied" and a DELETE of a deployment on a cluster of
\* another organization is answered "Deployment not found"; both leave the
\* usage of every cluster and every deployment unchanged.
C26_OtherOrganizationNotFound ==
    [][/\ \A r \in AnyRequests :
             (/\ r.rate_ok
              /\ r.org # clusters[r.body.cluster_id].organization_id
              /\ Posts(r))
             => NothingWritten /\ last' = Attempt(0, ClusterNotFound, NoVictims)
       /\ \A org \in Organizations, id \in DOMAIN deployments :
             (/\ org # clusters[deployments[id].cluster_id].organization_id
              /\ delete_deployment(org, id))
             => NothingWritten /\ last' = Attempt(0, DeploymentNotFound, NoVictims)]_vars

\* a user of organization 2 was answered not found for a POST on cluster 1,
\* which belongs to organization 1 and holds a reservation
C26_Witness ==
    /\ last.outcome = ClusterNotFound
    /\ clusters[1].organization_id = 1
    /\ Reserving(1) # {}
    /\ used(clusters[1]) # Zero

\* C27: when a HIGH or CRITICAL deployment without dependencies is created
\* that does not fit the free capacity, and the free capacity plus the total
\* held by the RUNNING deployments of strictly lower priority covers its
\* request in every dimension, it ends SCHEDULED.
C27_DeficitOnlyCovered ==
    [][Creates =>
          LET d == deployments'[next_id]
              c == d.cluster_id
          IN  (/\ d.priority >= HIGH
               /\ d.dependency_ids = {}
               /\ ~Covers(available(clusters[c]), required(d))
               /\ Covers(Add(available(clusters[c]),
                             SumRequired(deployments, LowerRunning(c, d.priority))),
                         required(d)))
              => d.status = SCHEDULED]_vars

\* C28: whenever a step evicts a deployment, it also evicts every deployment
\* that was RUNNING on the same cluster with a strictly lower priority.
C28_LowestPriorityFirst ==
    [][\A v \in Evicted :
          \A u \in LowerRunning(deployments[v].cluster_id, deployments[v].priority) :
              u \in Evicted]_vars

\* a preemption took one victim and left RUNNING a deployment whose priority
\* lies between the victim's and the candidate's
C28_Witness ==
    /\ last.outcome = "preempted"
    /\ Cardinality(last.victims) = 1
    /\ \E v \in last.victims, u \in DOMAIN deployments :
          /\ deployments[u].cluster_id = deployments[v].cluster_id
          /\ deployments[u].status = RUNNING
          /\ deployments[v].priority < deployments[u].priority
          /\ deployments[u].priority < deployments[last.id].priority

\* C29: in every reachable state, for every request body, the victims
\* selected for it are the same whichever listing the victim query returns:
\* the admission evicts one determined set of deployments.
C29_SelectionDeterministic ==
    \A b \in Bodies :
        \A o1, o2 \in OrderByPriority(deployments,
                          running_deployments(deployments, b.cluster_id, b.priority)) :
            preempt_lower_priority_deployments(deployments, o1, b.req)
                = preempt_lower_priority_deployments(deployments, o2, b.req)

\* the rows of S with the highest priority among S
Highest(db, S) == {v \in S : \A u \in S : db[u].priority <= db[v].priority}

\* C30: in every step that admits a deployment by evicting others, the
\* victims without the one visited last (a victim of the highest priority
\* among them) do not cover the candidate's request in some dimension.
C30_StopsWhenCovered ==
    [][(Creates /\ Evicted # {}) =>
          \E v \in Highest(deployments, Evicted) :
              ~Covers(SumRequired(deployments, Evicted \ {v}),
                      required(deployments'[next_id]))]_vars

\* a preemption stopped at the victims that cover the candidate's request
\* and left RUNNING a deployment the victim query had listed as well
C30_Witness ==
    /\ last.outcome = "preempted"
    /\ Covers(SumRequired(deployments, last.victims), required(deployments[last.id]))
    /\ \E u \in DOMAIN deployments \ last.victims :
          /\ deployments[u].cluster_id = deployments[last.id].cluster_id
          /\ deployments[u].status = RUNNING
          /\ deployments[u].priority < deployments[last.id].priority

(***************************************************************************)
(* The listing endpoints.  Neither handler calls the rate limiter: the     *)
(* only call of check_rate_limit is the one in create_deployment.          *)
(***************************************************************************)

\* the clock counts half minutes; the last one the model lets it reach
MaxTime == 3

\* timedelta(minutes=1) on that clock
minute == 2

\* RateLimiter.__init__: the default number of requests per minute
requests_per_minute == 60

\* the requests one client sends in a row in test_rate_limiting
burst == requests_per_minute + 1

\* list_deployments: the rows of the caller's organization, filtered by the
\* cluster and the status when they are given (0 and "" stand for None)
list_deployments(org, cluster_id, status) ==
    {id \in DOMAIN deployments :
        /\ deployments[id].cluster_id \in DOMAIN clusters
        /\ clusters[deployments[id].cluster_id].organization_id = org
        /\ (cluster_id # 0 => deployments[id].cluster_id = cluster_id)
        /\ (status # "" => deployments[id].status = status)}

\* list_clusters: the clusters of the caller's organization
list_clusters(org) == {c \in DOMAIN clusters : clusters[c].organization_id = org}

\* the response of a listing request: always the rows, never a 429
Listed(rows) ==
    /\ served < burst
    /\ served' = served + 1
    /\ last' = IF traced THEN Attempt(0, "listed", rows) ELSE NoAttempt
    /\ UNCHANGED <<clusters, deployments, next_id, tasks, traced, now, inflight, limiter>>

ListDeployments ==
    \E org \in Organizations, cluster_id \in {0} \cup ClusterIds, status \in {""} \cup DeploymentStatus :
        Listed(list_deployments(org, cluster_id, status))

ListClusters == \E org \in Organizations : Listed(list_clusters(org))

\* a minute passes: the requests served before it are out of the window
Tick ==
    /\ now + minute <= MaxTime
    /\ now' = now + minute
    /\ served' = 0
    /\ UNCHANGED <<clusters, deployments, next_id, tasks, last, traced, inflight, limiter>>

InitListing == InitResponses

NextListing == ListDeployments \/ ListClusters \/ Tick

SpecListing == InitListing /\ [][NextListing]_vars

\* C23: of the listing requests one client sends within one minute, at most
\* requests_per_minute are served; the next one is rejected with 429
C23_ListingRateLimited == served <= requests_per_minute

(***************************************************************************)
(* DELETE /clusters/{cluster_id}.  The handler deletes the cluster row and *)
(* commits; what becomes of the deployments of the cluster is decided by   *)
(* the relationship declared on the cluster model, after the contract of   *)
(* the cluster entity: the deletion releases the reservations of all the   *)
(* deployments the cluster owns.                                           *)
(***************************************************************************)

ClusterDeleted == "Cluster successfully deleted"

\* the deployments of cluster cid
owned(db, cid) == {id \in DOMAIN db : db[id].cluster_id = cid}

\* the deletion that leaves the deployments of the cluster where they are
cascade_none(db, cid) == db

\* the deployments that remain when cluster cid goes: those of the other
\* clusters
cascade(db, cid) == [id \in DOMAIN db \ owned(db, cid) |-> db[id]]

\* DELETE /clusters/{cluster_id} by a user of organization org
delete_cluster(org, cid) ==
    IF ~(cid \in DOMAIN clusters /\ clusters[cid].organization_id = org)
    THEN Reject(NoSuchCluster)
    ELSE /\ clusters' = [c \in DOMAIN clusters \ {cid} |-> clusters[c]]
         /\ deployments' = cascade(deployments, cid)
         /\ last' = Attempt(cid, ClusterDeleted, owned(deployments, cid))
         /\ UNCHANGED <<next_id, tasks, traced, others>>

DeleteCluster == \E org \in Organizations, cid \in ClusterIds : delete_cluster(org, cid)

InitClusters == InitResponses

NextClusters == CreateAny \/ Start \/ Delete \/ DeleteCluster

SpecClusters == InitClusters /\ [][NextClusters]_vars

TasksRun == \A id \in DeploymentIds : WF_vars(start_deployment(id))

SpecLive == InitResponses /\ [][NextResponses]_vars /\ TasksRun

\* C22: a SCHEDULED deployment has its start task dispatched, and every
\* deployment that is SCHEDULED is later RUNNING or deleted
C22_ScheduledEventuallyRunning ==
    /\ [](\A id \in DOMAIN deployments :
            deployments[id].status = SCHEDULED => id \in tasks)
    /\ \A id \in DeploymentIds :
          (id \in DOMAIN deployments /\ deployments[id].status = SCHEDULED)
          ~> (id \notin DOMAIN deployments \/ deployments[id].status = RUNNING)

\* a deployment was started by its task while the task of another, still
\* SCHEDULED, is waiting
C22_Witness ==
    \E a, b \in DOMAIN deployments :
        /\ deployments[a].status = RUNNING /\ a \notin tasks
        /\ deployments[b].status = SCHEDULED /\ b \in tasks

(***************************************************************************)
(* The handlers taken apart into what they read and what they write.       *)
(* create_deployment, start_deployment and delete_deployment are           *)
(* coroutines run by one event loop; their bodies query and commit through *)
(* the synchronous session and contain no await after the rate limiter's,  *)
(* so a body that has started runs to its end before another starts.       *)
(* inflight holds the handlers that have read and not yet written, each    *)
(* with the tables as it read them.                                        *)
(***************************************************************************)

Handler(kind, id, cl, db) ==
    [kind |-> kind, id |-> id, clusters |-> cl, deployments |-> db]

\* an event loop that takes up a handler while the body of another is
\* suspended between its reads and its writes
may_enter_suspended(running) == TRUE

\* the event loop takes up a handler when no handler body is in progress
may_enter(running) == running = {}

\* the rows whose status the handler set, written to the table as it is now
write_statuses(db, read, computed) ==
    [i \in DOMAIN db |->
        IF /\ i \in DOMAIN read
           /\ i \in DOMAIN computed
           /\ computed[i].status # read[i].status
        THEN [db[i] EXCEPT !.status = computed[i].status]
        ELSE db[i]]

\* create_deployment up to the call of schedule_deployment: the checks, the
\* insertion of the row, and the reads of schedule_deployment
enter_create(org, cid, req, prio, dep_ids, rate_ok) ==
    IF ~rate_ok
    THEN Reject(RateLimitExceeded)
    ELSE IF ~check_cluster_access(cid, org)
    THEN Reject(ClusterNotFound)
    ELSE IF /\ dep_ids # {}
            /\ ~all_found(found_dependencies(deployments, dep_ids, cid), dep_ids)
    THEN Reject(DependencyNotFound)
    ELSE /\ next_id <= MaxDeployments
         /\ LET id == next_id
                db == Insert(deployments, id,
                             DeploymentModel(cid, req, prio,
                                 found_dependencies(deployments, dep_ids, cid)))
            IN  /\ deployments' = db
                /\ IF dependencies(db, id) = {} \/ all_completed(db, dependencies(db, id))
                   THEN /\ inflight' = inflight \cup {Handler("create", id, clusters, db)}
                        /\ last' = NoAttempt
                   ELSE /\ last' = Attempt(id, "blocked", NoVictims)
                        /\ UNCHANGED inflight
         /\ next_id' = next_id + 1
         /\ UNCHANGED <<clusters, tasks, traced, now, served, limiter>>

\* schedule_deployment's writes, computed from what the handler read
finish_create(f) ==
    LET d == f.deployments[f.id]
    IN  \E order \in OrderByPriority(f.deployments,
                        running_deployments(f.deployments, d.cluster_id, d.priority)) :
            LET r == schedule_deployment(f.clusters, f.deployments, tasks, f.id, order)
            IN  /\ clusters' = IF r.outcome \in {"admitted", "preempted"}
                                  /\ d.cluster_id \in DOMAIN clusters
                               THEN [clusters EXCEPT ![d.cluster_id] = r.clusters[d.cluster_id]]
                               ELSE clusters
                /\ deployments' = write_statuses(deployments, f.deployments, r.deployments)
                /\ tasks' = r.tasks
                /\ last' = Attempt(f.id, r.outcome, r.victims)

\* start_deployment's query
enter_start(id) ==
    /\ id \in tasks
    /\ tasks' = tasks \ {id}
    /\ inflight' = inflight \cup {Handler("start", id, clusters, deployments)}
    /\ last' = NoAttempt
    /\ UNCHANGED <<clusters, deployments, next_id, traced, now, served, limiter>>

\* start_deployment's write
finish_start(f) ==
    /\ deployments' =
          IF f.id \in DOMAIN f.deployments /\ f.deployments[f.id].status = SCHEDULED
          THEN SetStatus(deployments, {f.id}, RUNNING)
          ELSE deployments
    /\ last' = NoAttempt
    /\ UNCHANGED <<clusters, tasks>>

\* delete_deployment's queries
enter_delete(org, id) ==
    IF ~(/\ id \in DOMAIN deployments
         /\ deployments[id].cluster_id \in DOMAIN clusters
         /\ clusters[deployments[id].cluster_id].organization_id = org)
    THEN Reject(DeploymentNotFound)
    ELSE /\ inflight' = inflight \cup {Handler("delete", id, clusters, deployments)}
         /\ last' = NoAttempt
         /\ UNCHANGED <<clusters, deployments, next_id, tasks, traced, now, served, limiter>>

\* delete_deployment's writes
finish_delete(f) ==
    LET d == f.deployments[f.id]
    IN  /\ clusters' = IF d.status = RUNNING /\ d.cluster_id \in DOMAIN clusters
                       THEN [clusters EXCEPT ![d.cluster_id] =
                                                credit(f.clusters[d.cluster_id], d)]
                       ELSE clusters
        /\ deployments' = Remove(deployments, f.id)
        /\ last' = NoAttempt
        /\ UNCHANGED tasks

Enter ==
    /\ may_enter(inflight)
    /\ \/ \E r \in LedgerRequests :
             enter_create(r.org, r.body.cluster_id, r.body.req, r.body.priority,
                          r.dependency_ids, r.rate_ok)
       \/ \E id \in DeploymentIds : enter_start(id)
       \/ \E org \in Organizations, id \in DeploymentIds : enter_delete(org, id)

Finish ==
    \E f \in inflight :
        /\ inflight' = inflight \ {f}
        /\ \/ f.kind = "create" /\ finish_create(f)
           \/ f.kind = "start" /\ finish_start(f)
           \/ f.kind = "delete" /\ finish_delete(f)
        /\ UNCHANGED <<next_id, traced, now, served, limiter>>

InitConcurrent == InitResponses

NextConcurrent == Enter \/ Finish

SpecConcurrent == InitConcurrent /\ [][NextConcurrent]_vars

\* what the whole handler of f writes when it runs alone on the tables as
\* they are when f writes
Serial(f) ==
    \/ /\ f.kind = "create"
       /\ f.id \in DOMAIN deployments
       /\ LET d == deployments[f.id]
          IN  \E order \in OrderByPriority(deployments,
                              running_deployments(deployments, d.cluster_id, d.priority)) :
                  LET r == schedule_deployment(clusters, deployments, tasks, f.id, order)
                  IN  /\ clusters' = r.clusters
                      /\ deployments' = r.deployments
                      /\ tasks' = r.tasks
    \/ /\ f.kind = "start"
       /\ deployments' = IF /\ f.id \in DOMAIN deployments
                            /\ deployments[f.id].status = SCHEDULED
                         THEN SetStatus(deployments, {f.id}, RUNNING)
                         ELSE deployments
       /\ UNCHANGED <<clusters, tasks>>
    \/ /\ f.kind = "delete"
       /\ f.id \in DOMAIN deployments
       /\ clusters' = IF deployments[f.id].status = RUNNING
                      THEN [clusters EXCEPT ![deployments[f.id].cluster_id] =
                                               credit(@, deployments[f.id])]
                      ELSE clusters
       /\ deployments' = Remove(deployments, f.id)
       /\ UNCHANGED tasks

----------------------------------------------------------------------------
(* The start callback, isolation of clusters, admission at creation *)

\* the step runs the start task of row id (only start_deployment takes a
\* task off the list)
Starts(id) == id \in tasks /\ id \notin tasks'

\* C31: the start task of a row changes nothing but the status of that row,
\* from SCHEDULED to RUNNING: usage, the other rows, the other fields of the
\* row and the ids handed out stay as they are, no task is added, and when
\* the row is gone or not SCHEDULED nothing changes at all
C31_StartOnlyUpdatesStatus ==
    [][\A id \in DeploymentIds :
          Starts(id) =>
             /\ clusters' = clusters
             /\ next_id' = next_id
             /\ tasks' = tasks \ {id}
             /\ deployments' =
                   IF id \in DOMAIN deployments /\ deployments[id].status = SCHEDULED
                   THEN [deployments EXCEPT ![id].status = RUNNING]
                   ELSE deployments]_vars

\* a row was started next to a SCHEDULED row of the same cluster, with the
\* usage of the cluster still the sum of the two requests
C31_Witness ==
    \E a, b \in DOMAIN deployments :
        /\ deployments[a].status = RUNNING /\ a \notin tasks
        /\ deployments[b].status = SCHEDULED
        /\ deployments[a].cluster_id = deployments[b].cluster_id
        /\ used(clusters[deployments[a].cluster_id])
             = Add(required(deployments[a]), required(deployments[b]))

\* the step is a request on cluster x: it creates a row of x, or it starts or
\* deletes one
OperatesOn(x) ==
    \/ Creates /\ deployments'[next_id].cluster_id = x
    \/ \E id \in DOMAIN deployments :
          /\ deployments[id].cluster_id = x
          /\ Starts(id) \/ id \notin DOMAIN deployments'

\* C32: a request on cluster x leaves the usage of every other cluster and
\* every row of every other cluster as they are
C32_OtherClustersUntouched ==
    [][\A x \in ClusterIds :
          OperatesOn(x) =>
             /\ \A c \in DOMAIN clusters \ {x} : clusters'[c] = clusters[c]
             /\ \A i \in DOMAIN deployments :
                   deployments[i].cluster_id # x
                   => i \in DOMAIN deployments' /\ deployments'[i] = deployments[i]]_vars

\* a candidate was admitted by preemption while a row of another cluster, of
\* lower priority than the candidate, is RUNNING
C32_Witness ==
    /\ last.outcome = "preempted"
    /\ \E i \in DOMAIN deployments :
          /\ deployments[i].cluster_id # deployments[last.id].cluster_id
          /\ deployments[i].status = RUNNING
          /\ deployments[i].priority < deployments[last.id].priority

\* the rows SCHEDULED before the step, their start task not yet run
Waiting == {i \in DOMAIN deployments : deployments[i].status = SCHEDULED}

\* C33: a create step leaves every SCHEDULED row as it is, and with it the
\* reservation it holds; a candidate that does not fit what is free is left
\* PENDING unless the RUNNING rows of lower priority alone cover its request
C33_ScheduledNeverVictim ==
    [][Creates =>
          LET d == deployments'[next_id]
              c == d.cluster_id
          IN  /\ \A i \in Waiting : deployments'[i] = deployments[i]
              /\ Covers(used(clusters'[c]),
                        SumRequired(deployments, Waiting \cap Reserving(c)))
                 \/ ~Covers(used(clusters[c]),
                            SumRequired(deployments, Waiting \cap Reserving(c)))
              /\ (/\ ~Covers(available(clusters[c]), required(d))
                  /\ ~Covers(SumRequired(deployments, LowerRunning(c, d.priority)),
                             required(d)))
                 => d.status = PENDING]_vars

\* a HIGH or CRITICAL candidate was deferred while a lower-priority row of its
\* cluster, SCHEDULED with its start task waiting, holds what the candidate
\* asks for
C33_Witness ==
    /\ last.outcome = "deferred"
    /\ last.id \in DOMAIN deployments
    /\ deployments[last.id].priority >= HIGH
    /\ \E i \in DOMAIN deployments :
          /\ i \in tasks
          /\ deployments[i].status = SCHEDULED
          /\ deployments[i].cluster_id = deployments[last.id].cluster_id
          /\ deployments[i].priority < deployments[last.id].priority
          /\ Covers(required(deployments[i]), required(deployments[last.id]))

\* C34: a row that is PENDING stays PENDING for as long as it exists: no
\* start, deletion or later admission on its cluster attempts it again
C34_AdmissionOnceAtCreation ==
    [][\A i \in DOMAIN deployments \cap DOMAIN deployments' :
          deployments[i].status = PENDING => deployments'[i].status = PENDING]_vars

\* a row without dependencies is PENDING although the free capacity of its
\* cluster now covers its request
C34_Witness ==
    \E i \in DOMAIN deployments :
        /\ deployments[i].status = PENDING
        /\ deployments[i].dependency_ids = {}
        /\ Covers(available(clusters[deployments[i].cluster_id]),
                  required(deployments[i]))

(***************************************************************************)
(* RateLimiter (app/core/rate_limiter.py).  requests maps a client address *)
(* to the list of the timestamps of its counted requests, in the order     *)
(* they were appended; a client without a key has the empty list.          *)
(* accepted records, for every client, the timestamps of the requests      *)
(* check_rate_limit accepted that are less than one minute old; it is not  *)
(* part of the program and cleanup never touches it.                       *)
(***************************************************************************)

\* requests that the second client has counted at most, so that its list
\* stays short
MaxOther == 1

Accepted == "accepted"

\* the test that lets one request more through
over_limit_above(timestamps) == Len(timestamps) > requests_per_minute

\* len(self.requests[client_ip]) >= self.requests_per_minute
over_limit(timestamps) == Len(timestamps) >= requests_per_minute

\* the filter that also drops the timestamps of the last half minute but one
fresh_strict(timestamps, current_time) ==
    SelectSeq(timestamps, LAMBDA ts : current_time - ts < minute - 1)

\* [ts for ts in timestamps if current_time - ts < timedelta(minutes=1)]
fresh(timestamps, current_time) ==
    SelectSeq(timestamps, LAMBDA ts : current_time - ts < minute)

\* the same filter, as cleanup applies it
fresh_cleanup(timestamps, current_time) ==
    SelectSeq(timestamps, LAMBDA ts : current_time - ts < minute)

\* the list that also counts the request turned away
counted_when_rejected(timestamps, current_time) == Append(timestamps, current_time)

\* the list of a client whose request is turned away: the exception is
\* raised before the append
kept_when_rejected(timestamps, current_time) == timestamps

\* check_rate_limit for a request of client at the time now
check_rate_limit(client) ==
    LET kept == fresh(requests[client], now)
    IN  /\ IF over_limit(kept)
           THEN /\ requests' = [requests EXCEPT ![client] = kept_when_rejected(kept, now)]
                /\ last' = Attempt(0, RateLimitExceeded, NoVictims)
                /\ UNCHANGED accepted
           ELSE /\ requests' = [requests EXCEPT ![client] = Append(kept, now)]
                /\ accepted' = [accepted EXCEPT ![client] = Append(@, now)]
                /\ last' = Attempt(0, Accepted, NoVictims)
        /\ UNCHANGED <<clusters, deployments, next_id, tasks, traced, now, served, inflight>>

\* one round of cleanup: every list filtered, the empty ones deleted
cleanup ==
    /\ requests' = [client \in Clients |-> fresh_cleanup(requests[client], now)]
    /\ UNCHANGED <<clusters, deployments, next_id, tasks, last, traced,
                   now, served, inflight, accepted>>

\* a request of one of the clients reaches the rate limiter
CheckRateLimit ==
    \E client \in Clients :
        /\ client = "b" => Len(requests[client]) < MaxOther
        /\ check_rate_limit(client)

Cleanup == cleanup

\* half a minute passes
Advance ==
    /\ now < MaxTime
    /\ now' = now + 1
    /\ accepted' = [client \in Clients |->
                       SelectSeq(accepted[client], LAMBDA ts : now + 1 - ts < minute)]
    /\ UNCHANGED <<clusters, deployments, next_id, tasks, last, traced,
                   served, inflight, requests>>

InitLimiter == InitResponses

NextLimiter == CheckRateLimit \/ Cleanup \/ Advance

SpecLimiter == InitLimiter /\ [][NextLimiter]_vars

\* C35: check_rate_limit accepts a request of a client exactly when fewer
\* than requests_per_minute of the requests it accepted from that client are
\* less than one minute old; so no client has more than requests_per_minute
\* requests accepted within less than a minute, and no list holds more than
\* requests_per_minute timestamps
C35_AcceptsBelowLimitOnly ==
    /\ [](\A client \in Clients :
            /\ Len(accepted[client]) <= requests_per_minute
            /\ Len(requests[client]) <= requests_per_minute)
    /\ [][\A client \in Clients :
            check_rate_limit(client) =>
               (last'.outcome = Accepted
                  <=> Len(accepted[client]) < requests_per_minute)]_vars

\* a client whose accepted requests of the last minute, spread over both
\* halves of it, have reached the limit was turned away
C35_Witness ==
    /\ last.outcome = RateLimitExceeded
    /\ \E client \in Clients :
          /\ Len(accepted[client]) = requests_per_minute
          /\ accepted[client][1] < now
          /\ accepted[client][requests_per_minute] = now

\* C36: a request that is turned away adds no timestamp to the client's list
\* and is not recorded as accepted; and a request that arrives when the
\* oldest counted request of the client is a minute old is accepted, however
\* many requests were turned away before
C36_RejectedNotCounted ==
    [][\A client \in Clients :
          check_rate_limit(client) =>
             /\ last'.outcome = RateLimitExceeded
                => /\ Len(requests'[client]) <= Len(requests[client])
                   /\ \A k \in 1..Len(requests'[client]) :
                         requests'[client][k] \in
                            {requests[client][j] : j \in 1..Len(requests[client])}
                   /\ accepted' = accepted
             /\ (/\ requests[client] # <<>>
                 /\ now - requests[client][1] >= minute)
                => last'.outcome = Accepted]_vars

\* a client whose list was full is accepted again at the moment its oldest
\* requests have become a minute old: the list is full once more, and only
\* its newest timestamp is of the current half minute
C36_Witness ==
    /\ last.outcome = Accepted
    /\ \E client \in Clients :
          /\ Len(requests[client]) = requests_per_minute
          /\ requests[client][requests_per_minute] = now
          /\ requests[client][requests_per_minute - 1] < now
          /\ now >= minute

\* the timestamps of a list that are less than a minute old now
Younger(timestamps) == SelectSeq(timestamps, LAMBDA ts : now - ts < minute)

\* the same timestamps one step later
YoungerAfter(timestamps) == SelectSeq(timestamps, LAMBDA ts : now' - ts < minute)

\* C39: cleanup drops only timestamps check_rate_limit would discard itself:
\* a round of cleanup leaves the timestamps younger than a minute in every
\* list, and in every state these are exactly the accepted requests younger
\* than a minute, whether and whenever cleanup has run; the decisions, taken
\* on these timestamps alone, are the same with and without cleanup
C39_CleanupTransparent ==
    /\ [](\A client \in Clients : Younger(requests[client]) = accepted[client])
    /\ [][cleanup =>
            /\ last' = last
            /\ \A client \in Clients :
                  YoungerAfter(requests'[client]) = Younger(requests[client])]_vars

\* cleanup has shortened the list of a client after its last request was
\* turned away: the list was full then and the client has not been back
C39_Witness ==
    /\ last.outcome = RateLimitExceeded
    /\ \E client \in Clients :
          /\ requests[client] # <<>>
          /\ Len(requests[client]) < requests_per_minute

----------------------------------------------------------------------------
(* The clusters API *)

\* value v lies within [0, lim]
InRange(v, lim) == 0 <= v /\ v <= lim

\* C38: a PUT /clusters/{cluster_id}/resources stores no usage value outside
\* [0, limit], and a PUT with a value above its limit leaves the usage of
\* the cluster as it is
C38_UpdateStoresWithinRange ==
    [][\A org \in Organizations, cid \in DOMAIN clusters, u \in UsageInputs :
          update_cluster_resources(org, cid, u) =>
             /\ \/ InRange(clusters'[cid].cpu_used, clusters'[cid].cpu_limit)
                \/ clusters'[cid].cpu_used = clusters[cid].cpu_used
             /\ \/ InRange(clusters'[cid].ram_used, clusters'[cid].ram_limit)
                \/ clusters'[cid].ram_used = clusters[cid].ram_used
             /\ \/ InRange(clusters'[cid].gpu_used, clusters'[cid].gpu_limit)
                \/ clusters'[cid].gpu_used = clusters[cid].gpu_used
             /\ (\/ u.cpu > clusters[cid].cpu_limit
                 \/ u.memory > clusters[cid].ram_limit
                 \/ u.gpu > clusters[cid].gpu_limit)
                => used(clusters'[cid]) = used(clusters[cid])]_vars

(***************************************************************************)
(* POST /clusters/.  create_cluster is a plain function, which the         *)
(* framework runs in a thread of its pool: between the query that sums the *)
(* limits of the organization's clusters and the commit of the new row,    *)
(* other requests run.  inflight holds the requests that have summed and   *)
(* not yet committed, each with the totals it found.                       *)
(***************************************************************************)

\* the keys the clusters table hands out
MaxClusters == 4

\* ORG_CPU_LIMIT, ORG_ram_limit, ORG_GPU_LIMIT
ORG_CPU_LIMIT == 100
ORG_ram_limit == 1024
ORG_GPU_LIMIT == 8

\* (cpu_limit, ram_limit, gpu_limit) of the bodies sent: the cluster of
\* test_create_cluster and one that takes an organization owning the
\* (10, 32, 2) cluster to its CPU and GPU caps
ClusterLimits == {Triple(8, 16, 1), Triple(90, 512, 6)}

\* the details of the HTTPExceptions of create_cluster
CpuLimitNotPositive == "CPU limit must be greater than 0"
MemoryLimitNotPositive == "Memory limit must be greater than 0"
GpuLimitNegative == "GPU limit cannot be negative"
OrgCpuExceeded(total) ==
    <<"Organization CPU limit exceeded. Available: ", ORG_CPU_LIMIT - total.cpu, " cores">>
OrgMemoryExceeded(total) ==
    <<"Organization memory limit exceeded. Available: ", ORG_ram_limit - total.memory, " GB">>
OrgGpuExceeded(total) ==
    <<"Organization GPU limit exceeded. Available: ", ORG_GPU_LIMIT - total.gpu, " GPUs">>

ClusterCreated == "created"

\* the sum of the limits of the clusters S of table cl
RECURSIVE SumLimits(_, _)
SumLimits(cl, S) ==
    IF S = {} THEN Zero
    ELSE LET c == CHOOSE x \in S : TRUE
         IN  Add(limit(cl[c]), SumLimits(cl, S \ {c}))

\* total_cpu, total_memory, total_gpu over the clusters of the organization
org_total(cl, org) ==
    SumLimits(cl, {c \in DOMAIN cl : cl[c].organization_id = org})

\* a create_cluster request that has summed and not yet committed
ClusterRequest(ticket, org, lim, total) ==
    [kind |-> "create_cluster", id |-> ticket, org |-> org, body |-> lim, total |-> total]

\* create_cluster up to the sums: validate_resources and the query
enter_create_cluster(org, lim) ==
    IF lim.cpu <= 0 THEN Reject(CpuLimitNotPositive)
    ELSE IF lim.memory <= 0 THEN Reject(MemoryLimitNotPositive)
    ELSE IF lim.gpu < 0 THEN Reject(GpuLimitNegative)
    ELSE /\ Cardinality(DOMAIN clusters) + Cardinality(inflight) < MaxClusters
         /\ \E ticket \in 1..MaxClusters :
               /\ \A f \in inflight : f.id # ticket
               /\ \A other \in 1..(ticket - 1) : \E f \in inflight : f.id = other
               /\ inflight' = inflight \cup
                     {ClusterRequest(ticket, org, lim, org_total(clusters, org))}
         /\ last' = NoAttempt
         /\ UNCHANGED <<clusters, deployments, next_id, tasks, traced, now, served, limiter>>

\* create_cluster from the comparison with the caps to the commit; the row
\* gets a key that is not in use
finish_create_cluster(f) ==
    /\ inflight' = inflight \ {f}
    /\ IF f.total.cpu + f.body.cpu > ORG_CPU_LIMIT
       THEN last' = Attempt(0, OrgCpuExceeded(f.total), NoVictims) /\ UNCHANGED clusters
       ELSE IF f.total.memory + f.body.memory > ORG_ram_limit
       THEN last' = Attempt(0, OrgMemoryExceeded(f.total), NoVictims) /\ UNCHANGED clusters
       ELSE IF f.total.gpu + f.body.gpu > ORG_GPU_LIMIT
       THEN last' = Attempt(0, OrgGpuExceeded(f.total), NoVictims) /\ UNCHANGED clusters
       ELSE LET key == CHOOSE k \in 1..MaxClusters :
                          /\ k \notin DOMAIN clusters
                          /\ \A j \in 1..(k - 1) : j \in DOMAIN clusters
            IN  /\ clusters' = [c \in DOMAIN clusters \cup {key} |->
                                   IF c = key
                                   THEN Cluster(f.org, f.body.cpu, f.body.memory, f.body.gpu)
                                   ELSE clusters[c]]
                /\ last' = Attempt(key, ClusterCreated, NoVictims)
    /\ UNCHANGED <<deployments, next_id, tasks, traced, now, served, limiter>>

EnterCreateCluster ==
    \E org \in Organizations, lim \in ClusterLimits : enter_create_cluster(org, lim)

FinishCreateCluster == \E f \in inflight : finish_create_cluster(f)

DeleteAnyCluster ==
    \E org \in Organizations, cid \in 1..MaxClusters : delete_cluster(org, cid)

InitOrganization == InitResponses

NextOrganization == EnterCreateCluster \/ FinishCreateCluster \/ DeleteAnyCluster

SpecOrganization == InitOrganization /\ [][NextOrganization]_vars

\* C37: the limits of the clusters of every organization add up to at most
\* 100 CPUs, 1024 GB and 8 GPUs, whatever create_cluster and delete_cluster
\* requests were handled, concurrent ones included
C37_OrganizationWithinCaps ==
    \A org \in Organizations :
        Covers(Triple(ORG_CPU_LIMIT, ORG_ram_limit, ORG_GPU_LIMIT),
               org_total(clusters, org))

====
